---- MODULE Spec2Model ----
(***************************************************************************)
(* A model of backend/utils/file_loader.py: the seven extractors           *)
(* (load_pdf, load_image, load_text, load_csv, load_excel, load_video,     *)
(* load_audio) and the helper normalize_text.                              *)
(*                                                                         *)
(* One call is modelled at a time: Init picks the function that is called  *)
(* and its argument, the actions are the statements of that function, and  *)
(* every external step (PDF parser, OCR, pandas, moviepy, pydub, the       *)
(* transcription service, the filesystem) chooses its outcome              *)
(* nondeterministically among the outcomes the library can produce.        *)
(*                                                                         *)
(* A Python str is a sequence of code points, a Python bytes a sequence of *)
(* integers in 0..255.                                                     *)
(***************************************************************************)
EXTENDS Integers, Sequences, FiniteSets, TLC

VARIABLES
    fn,              \* the function that is called
    pc,              \* the statement the call has reached
    result,          \* what the call returned (Pending while it runs)
    file_bytes,      \* the argument of the load_* functions
    byteorder,       \* sys.byteorder of the interpreter ("little" or "big")
    source_str,      \* the str whose UTF-8 encoding file_bytes is, if it is one
    encIdx,          \* load_text: index in encodings of the next attempt
    decoded_with,    \* load_text: the decoding that produced the result
    pages,           \* load_pdf: what each page's extract_text() does
    page_num,        \* load_pdf: pages enumerated so far
    text_content,    \* load_pdf: the list text_content
    text,            \* normalize_text: the argument
    audio,           \* load_video/load_audio: the local variable audio
    files,           \* load_video/load_audio: temporary files on disk
    created,         \* load_video/load_audio: temporary files the call created
    transcribeCalls, \* load_video/load_audio: transcription requests issued
    wavWritten,      \* load_video/load_audio: the WAV file has been written
    retval,          \* load_video/load_audio: value of the return statement
                     \* that is pending while the finally block runs
    warnings         \* load_video/load_audio: cleanup warnings logged

vars == <<fn, pc, result, file_bytes, byteorder, source_str, encIdx,
          decoded_with, pages, page_num, text_content, text, audio, files, created,
          transcribeCalls, wavWritten, retval, warnings>>

textVars  == <<byteorder, source_str, encIdx, decoded_with>>
pdfVars   == <<pages, page_num, text_content>>
mediaVars == <<audio, files, created, transcribeCalls, wavWritten, retval, warnings>>

(***************************************************************************)
(* Bounds of the model.                                                    *)
(***************************************************************************)
MaxBytes  == 4    \* longest raw byte argument of load_text
MaxStrLen == 3    \* longest str that is encoded and handed to load_text
MaxPages  == 3    \* most pages of a PDF
MaxText   == 5    \* longest argument of normalize_text

(***************************************************************************)
(* Python values.                                                          *)
(***************************************************************************)
\* A bytes object.
Bytes(b) == [type |-> "bytes", val |-> b]
\* The value None.
None == [type |-> "NoneType", val |-> <<>>]

\* The call has not returned.
Pending == [type |-> "pending", kind |-> "", msg |-> "", body |-> <<>>]
\* The call returned None (fell off the end of the function).
ReturnedNone == [type |-> "NoneType", kind |-> "", msg |-> "", body |-> <<>>]
\* A returned str made of extracted content: its code points are body, or,
\* where the content is the output of a library the model does not look
\* into, a label msg of what it is.
Content(body) == [type |-> "str", kind |-> "content", msg |-> "", body |-> body]
Report(msg) == [type |-> "str", kind |-> "content", msg |-> msg, body |-> <<>>]
\* A returned fixed string.
Sentinel(msg) == [type |-> "str", kind |-> "sentinel", msg |-> msg, body |-> <<>>]
\* A returned f"Error processing <kind>: {str(e)}"; msg is the fixed prefix.
ErrorString(msg) == [type |-> "str", kind |-> "error", msg |-> msg, body |-> <<>>]

(***************************************************************************)
(* str.strip(): whitespace is what str.isspace() accepts.                  *)
(***************************************************************************)
IsSpace(c) ==
    \/ c \in 9..13
    \/ c \in 28..32
    \/ c \in {133, 160, 5760, 8232, 8233, 8239, 8287, 12288}
    \/ c \in 8192..8202

RECURSIVE lstrip(_)
lstrip(s) ==
    IF s = <<>> THEN <<>>
    ELSE IF IsSpace(Head(s)) THEN lstrip(Tail(s)) ELSE s

RECURSIVE rstrip(_)
rstrip(s) ==
    IF s = <<>> THEN <<>>
    ELSE IF IsSpace(s[Len(s)]) THEN rstrip(SubSeq(s, 1, Len(s) - 1)) ELSE s

strip(s) == rstrip(lstrip(s))

(***************************************************************************)
(* bytes.decode(encoding): [ok |-> the decoding succeeded, text |-> the    *)
(* str]; not ok is UnicodeDecodeError.                                     *)
(***************************************************************************)
DecodeError == [ok |-> FALSE, text |-> <<>>]

\* The form a UTF-8 sequence must have, from its first byte: n bytes, the
\* second within lo..hi, and the bits the first byte contributes. n = 0 is
\* an invalid first byte.
Utf8Lead(b) ==
    IF b < 128 THEN [n |-> 1, lo |-> 0, hi |-> 0, bits |-> b]
    ELSE IF b \in 194..223 THEN [n |-> 2, lo |-> 128, hi |-> 191, bits |-> b - 192]
    ELSE IF b = 224 THEN [n |-> 3, lo |-> 160, hi |-> 191, bits |-> 0]
    ELSE IF b = 237 THEN [n |-> 3, lo |-> 128, hi |-> 159, bits |-> 13]
    ELSE IF b \in 225..239 THEN [n |-> 3, lo |-> 128, hi |-> 191, bits |-> b - 224]
    ELSE IF b = 240 THEN [n |-> 4, lo |-> 144, hi |-> 191, bits |-> 0]
    ELSE IF b \in 241..243 THEN [n |-> 4, lo |-> 128, hi |-> 191, bits |-> b - 240]
    ELSE IF b = 244 THEN [n |-> 4, lo |-> 128, hi |-> 143, bits |-> 4]
    ELSE [n |-> 0, lo |-> 0, hi |-> 0, bits |-> 0]

\* How many of the continuation bytes that the sequence starting at b[i]
\* needs are there and valid, counting from the j-th.
RECURSIVE Utf8Matched(_, _, _, _)
Utf8Matched(b, i, L, j) ==
    IF j >= L.n \/ i + j > Len(b) THEN 0
    ELSE LET c  == b[i + j]
             ok == IF j = 1 THEN c >= L.lo /\ c <= L.hi ELSE c \in 128..191
         IN  IF ok THEN 1 + Utf8Matched(b, i, L, j + 1) ELSE 0

\* The code point of the complete sequence of n bytes starting at b[i].
RECURSIVE Utf8Value(_, _, _, _, _)
Utf8Value(b, i, n, j, acc) ==
    IF j >= n THEN acc
    ELSE Utf8Value(b, i, n, j + 1, acc * 64 + (b[i + j] - 128))

\* bytes.decode('utf-8', errors): strict stops at the first invalid
\* sequence, replace puts U+FFFD for each maximal invalid part.
RECURSIVE utf8_decode(_, _, _)
utf8_decode(b, i, errors) ==
    IF i > Len(b) THEN [ok |-> TRUE, text |-> <<>>]
    ELSE LET L == Utf8Lead(b[i])
             k == IF L.n = 0 THEN 0 ELSE Utf8Matched(b, i, L, 1)
         IN  IF L.n > 0 /\ k = L.n - 1
             THEN LET rest == utf8_decode(b, i + L.n, errors)
                  IN  [ok   |-> rest.ok,
                       text |-> <<Utf8Value(b, i, L.n, 1, L.bits)>> \o rest.text]
             ELSE IF errors = "replace"
             THEN LET rest == utf8_decode(b, i + 1 + k, errors)
                  IN  [ok |-> rest.ok, text |-> <<65533>> \o rest.text]
             ELSE DecodeError

\* The 16-bit code units from b[i] on, in the given byte order, as a str.
RECURSIVE utf16_units(_, _, _)
utf16_units(b, i, order) ==
    IF i > Len(b) THEN [ok |-> TRUE, text |-> <<>>]
    ELSE IF i = Len(b) THEN DecodeError                  \* truncated data
    ELSE LET unit(j) == IF order = "little" THEN b[j] + 256 * b[j + 1]
                                            ELSE 256 * b[j] + b[j + 1]
             u == unit(i)
         IN  IF u < 55296 \/ u > 57343
             THEN LET rest == utf16_units(b, i + 2, order)
                  IN  [ok |-> rest.ok, text |-> <<u>> \o rest.text]
             ELSE IF u >= 56320 THEN DecodeError         \* low surrogate first
             ELSE IF i + 3 > Len(b) THEN DecodeError     \* unexpected end
             ELSE LET u2 == unit(i + 2)
                  IN  IF u2 < 56320 \/ u2 > 57343 THEN DecodeError
                      ELSE LET rest == utf16_units(b, i + 4, order)
                           IN  [ok   |-> rest.ok,
                                text |-> <<65536 + (u - 55296) * 1024 + (u2 - 56320)>>
                                         \o rest.text]

\* bytes.decode('utf-16'): a byte order mark gives the order and is dropped,
\* without one the order is the interpreter's.
utf16_decode(b, native) ==
    LET le == Len(b) >= 2 /\ b[1] = 255 /\ b[2] = 254
        be == Len(b) >= 2 /\ b[1] = 254 /\ b[2] = 255
    IN  utf16_units(b, IF le \/ be THEN 3 ELSE 1,
                    IF le THEN "little" ELSE IF be THEN "big" ELSE native)

\* bytes.decode('latin-1'): every byte is its own code point.
latin1_decode(b) == [ok |-> TRUE, text |-> b]

\* bytes.decode('ascii'): bytes from 128 on are not ASCII.
ascii_decode(b) ==
    IF \A i \in 1..Len(b) : b[i] < 128 THEN [ok |-> TRUE, text |-> b]
    ELSE DecodeError

decode(b, encoding, native) ==
    CASE encoding = "utf-8"   -> utf8_decode(b, 1, "strict")
      [] encoding = "utf-16"  -> utf16_decode(b, native)
      [] encoding = "latin-1" -> latin1_decode(b)
      [] encoding = "ascii"   -> ascii_decode(b)

\* str.encode('utf-8') of one code point (no surrogates).
Utf8EncodeChar(c) ==
    IF c < 128 THEN <<c>>
    ELSE IF c < 2048 THEN <<192 + (c \div 64), 128 + (c % 64)>>
    ELSE IF c < 65536
         THEN <<224 + (c \div 4096), 128 + ((c \div 64) % 64), 128 + (c % 64)>>
    ELSE <<240 + (c \div 262144), 128 + ((c \div 4096) % 64),
           128 + ((c \div 64) % 64), 128 + (c % 64)>>

RECURSIVE utf8_encode(_)
utf8_encode(s) ==
    IF s = <<>> THEN <<>> ELSE Utf8EncodeChar(Head(s)) \o utf8_encode(Tail(s))

(***************************************************************************)
(* The arguments the model draws.                                          *)
(***************************************************************************)
\* All sequences over S of length at most n.
SeqsUpTo(S, n) == UNION {[1..k -> S] : k \in 0..n}

\* Bytes that make the decoders differ: ASCII 'A' and space, the UTF-8
\* sequence C3 A9, the UTF-16 byte order mark FF FE, and D8, DC, which make
\* UTF-16 surrogates.
ByteSamples == {32, 65, 195, 169, 255, 254, 216, 220}

\* Code points of every UTF-8 length, with and without whitespace: space,
\* line feed, 'A', no-break space, e-acute, the euro sign, U+FEFF, U+1F600.
CharSamples == {32, 10, 65, 160, 233, 8364, 65279, 128512}

(***************************************************************************)
(* load_text                                                               *)
(***************************************************************************)
\* Variants of the list in another order.
encodings_utf16_first == <<"utf-16", "utf-8", "latin-1", "ascii">>
encodings_latin1_second == <<"utf-8", "latin-1", "utf-16", "ascii">>
encodings_ascii_third == <<"utf-8", "utf-16", "ascii", "latin-1">>

encodings == <<"utf-8", "utf-16", "latin-1", "ascii">>

InitText ==
    /\ fn = "load_text"
    /\ pc = "decode"
    /\ \/ /\ file_bytes \in {Bytes(b) : b \in SeqsUpTo(ByteSamples, MaxBytes)}
                            \cup {None}
          /\ source_str = None
       \/ \E s \in SeqsUpTo(CharSamples, MaxStrLen) :
            /\ source_str = [type |-> "str", val |-> s]
            /\ file_bytes = Bytes(utf8_encode(s))
    /\ byteorder \in {"little", "big"}
    /\ encIdx = 1
    /\ decoded_with = ""

\* One round of the loop over encodings, and the statements after the loop.
LoadText_Decode ==
    /\ fn = "load_text"
    /\ pc = "decode"
    /\ file_bytes.type = "bytes"
    /\ IF encIdx <= Len(encodings)
       THEN LET d == decode(file_bytes.val, encodings[encIdx], byteorder)
            IN  IF d.ok
                THEN /\ result' = Content(strip(d.text))
                     /\ decoded_with' = encodings[encIdx]
                     /\ pc' = "done"
                     /\ UNCHANGED encIdx
                ELSE /\ encIdx' = encIdx + 1
                     /\ UNCHANGED <<result, decoded_with, pc>>
       ELSE /\ result' = Content(strip(utf8_decode(file_bytes.val, 1, "replace").text))
            /\ decoded_with' = "utf-8/replace"
            /\ pc' = "done"
            /\ UNCHANGED encIdx
    /\ UNCHANGED <<fn, file_bytes, byteorder, source_str, pdfVars, text, mediaVars>>

\* file_bytes.decode raises something other than UnicodeDecodeError (the
\* argument is no bytes object): the outer handler.
LoadText_Except ==
    /\ fn = "load_text"
    /\ pc = "decode"
    /\ file_bytes.type # "bytes"
    /\ result' = ErrorString("Error processing text file: ")
    /\ pc' = "done"
    /\ UNCHANGED <<fn, file_bytes, textVars, pdfVars, text, mediaVars>>

(***************************************************************************)
(* normalize_text                                                          *)
(***************************************************************************)
\* str.split(sep) for a one-character separator.
RECURSIVE split(_, _)
split(s, sep) ==
    IF \A i \in 1..Len(s) : s[i] # sep THEN <<s>>
    ELSE LET i == CHOOSE j \in 1..Len(s) :
                      s[j] = sep /\ \A k \in 1..(j - 1) : s[k] # sep
         IN  <<SubSeq(s, 1, i - 1)>> \o split(SubSeq(s, i + 1, Len(s)), sep)

\* sep.join(parts)
RECURSIVE join(_, _)
join(sep, parts) ==
    IF parts = <<>> THEN <<>>
    ELSE IF Len(parts) = 1 THEN parts[1]
    ELSE parts[1] \o sep \o join(sep, Tail(parts))

\* The loop over lines: cleaned_lines after the lines from the i-th on.
RECURSIVE CleanedLines(_, _, _)
CleanedLines(lines, i, cleaned_lines) ==
    IF i > Len(lines) THEN cleaned_lines
    ELSE LET cleaned_line == strip(lines[i])
         IN  CleanedLines(lines, i + 1,
                          IF cleaned_line # <<>>
                          THEN Append(cleaned_lines, cleaned_line)
                          ELSE cleaned_lines)

\* A variant that keeps the lines that become empty.
normalize_text_keep_empty(t) ==
    IF t.type = "NoneType" \/ t.val = <<>> THEN <<>>
    ELSE join(<<10>>, [i \in 1..Len(split(t.val, 10)) |-> strip(split(t.val, 10)[i])])

normalize_text(t) ==
    IF t.type = "NoneType" \/ t.val = <<>> THEN <<>>
    ELSE join(<<10>>, CleanedLines(split(t.val, 10), 1, <<>>))

Str(s) == [type |-> "str", val |-> s]

\* Characters of normalize_text's arguments: 'a', space, line feed,
\* carriage return.
TextSamples == {97, 32, 10, 13}

\* "  a  \n\n b \n"
ExampleText == <<32, 32, 97, 32, 32, 10, 10, 32, 98, 32, 10>>

InitNormalize ==
    /\ fn = "normalize_text"
    /\ pc = "call"
    /\ text \in {Str(s) : s \in SeqsUpTo(TextSamples, MaxText)}
                \cup {None, Str(ExampleText)}

NormalizeText_Call ==
    /\ fn = "normalize_text"
    /\ pc = "call"
    /\ result' = Content(normalize_text(text))
    /\ pc' = "done"
    /\ UNCHANGED <<fn, file_bytes, textVars, pdfVars, text, mediaVars>>

(***************************************************************************)
(* load_pdf                                                                *)
(***************************************************************************)
\* str(n) for n >= 0
RECURSIVE decimal(_)
decimal(n) == IF n < 10 THEN <<48 + n>> ELSE decimal(n \div 10) \o <<48 + (n % 10)>>

\* f"--- Page {n} ---"
PageMarker(n) ==
    <<45, 45, 45, 32, 80, 97, 103, 101, 32>> \o decimal(n) \o <<32, 45, 45, 45>>

\* What page.extract_text() does: raises, returns None, or returns a str.
PageRaises == [outcome |-> "raises", val |-> <<>>]
PageNone == [outcome |-> "None", val |-> <<>>]
PageText(s) == [outcome |-> "str", val |-> s]

\* Page texts: "", "a", " a\n", " ", "a\n\nb", and a page whose own text is
\* "--- Page 1 ---".
PageSamples ==
    {PageRaises, PageNone, PageText(<<>>), PageText(<<97>>),
     PageText(<<32, 97, 10>>), PageText(<<32>>),
     PageText(<<97, 10, 10, 98>>), PageText(PageMarker(1))}

\* Python's truth value of what extract_text() returned.
Truthy(p) == p.outcome = "str" /\ p.val # <<>>

InitPdf ==
    /\ fn = "load_pdf"
    /\ pc = "open"
    /\ pages \in SeqsUpTo(PageSamples, MaxPages)
    /\ page_num = 0
    /\ text_content = <<>>

\* pdfplumber.open(pdf_file) and pdf.pages: a failure is the outer handler's.
LoadPdf_Open ==
    /\ fn = "load_pdf"
    /\ pc = "open"
    /\ \/ pc' = "pages" /\ UNCHANGED result
       \/ result' = ErrorString("Error processing PDF: ") /\ pc' = "done"
    /\ UNCHANGED <<fn, file_bytes, textVars, pdfVars, text, mediaVars>>

\* A variant that numbers the pages by the markers emitted so far.
LoadPdf_Page_CountsEmitted ==
    /\ fn = "load_pdf"
    /\ pc = "pages"
    /\ page_num < Len(pages)
    /\ LET page == pages[page_num + 1]
       IN  text_content' =
               IF Truthy(page)
               THEN text_content \o <<PageMarker(Len(text_content) \div 2 + 1),
                                      strip(page.val)>>
               ELSE text_content
    /\ page_num' = page_num + 1
    /\ UNCHANGED <<fn, pc, result, file_bytes, textVars, pages, text, mediaVars>>

\* A variant that numbers the pages from 0.
LoadPdf_Page_ZeroBased ==
    /\ fn = "load_pdf"
    /\ pc = "pages"
    /\ page_num < Len(pages)
    /\ LET page == pages[page_num + 1]
       IN  text_content' =
               IF Truthy(page)
               THEN text_content \o <<PageMarker(page_num), strip(page.val)>>
               ELSE text_content
    /\ page_num' = page_num + 1
    /\ UNCHANGED <<fn, pc, result, file_bytes, textVars, pages, text, mediaVars>>

\* One round of the loop over the pages: a page whose extract_text() raises
\* is logged and skipped, one with no text is skipped.
LoadPdf_Page ==
    /\ fn = "load_pdf"
    /\ pc = "pages"
    /\ page_num < Len(pages)
    /\ LET page == pages[page_num + 1]
       IN  text_content' =
               IF Truthy(page)
               THEN text_content \o <<PageMarker(page_num + 1), strip(page.val)>>
               ELSE text_content
    /\ page_num' = page_num + 1
    /\ UNCHANGED <<fn, pc, result, file_bytes, textVars, pages, text, mediaVars>>

\* After the loop.
LoadPdf_Return ==
    /\ fn = "load_pdf"
    /\ pc = "pages"
    /\ page_num = Len(pages)
    /\ result' = IF text_content = <<>>
                 THEN Sentinel("No text content found in PDF")
                 ELSE Content(join(<<10, 10>>, text_content))
    /\ pc' = "done"
    /\ UNCHANGED <<fn, file_bytes, textVars, pdfVars, text, mediaVars>>

(***************************************************************************)
(* load_image, load_csv, load_excel: the libraries' results are not looked *)
(* into, only whether each step raises.                                    *)
(***************************************************************************)
InitSimple ==
    /\ fn \in {"load_image", "load_csv", "load_excel"}
    /\ pc = "call"

LoadImage_Call ==
    /\ fn = "load_image"
    /\ pc = "call"
    /\ \E outcome \in {"open raises", "convert raises", "ocr raises",
                       "no text", "text"} :
         result' = CASE outcome = "no text" -> Sentinel("No text found in image")
                     [] outcome = "text" -> Report("cleaned_text")
                     [] OTHER -> ErrorString("Error processing image: ")
    /\ pc' = "done"
    /\ UNCHANGED <<fn, file_bytes, textVars, pdfVars, text, mediaVars>>

LoadCsv_Call ==
    /\ fn = "load_csv"
    /\ pc = "call"
    /\ \E outcome \in {"decode raises", "read_csv raises", "report raises",
                       "report"} :
         result' = IF outcome = "report" THEN Report("CSV Data Summary:")
                   ELSE ErrorString("Error processing CSV: ")
    /\ pc' = "done"
    /\ UNCHANGED <<fn, file_bytes, textVars, pdfVars, text, mediaVars>>

\* The handler logs and returns nothing: the call returns None.
LoadExcel_Call ==
    /\ fn = "load_excel"
    /\ pc = "call"
    /\ \E outcome \in {"read_excel raises", "report raises", "report"} :
         result' = IF outcome = "report" THEN Report("Excel File Summary:")
                   ELSE ReturnedNone
    /\ pc' = "done"
    /\ UNCHANGED <<fn, file_bytes, textVars, pdfVars, text, mediaVars>>

(***************************************************************************)
(* load_video and load_audio. tempfile.NamedTemporaryFile(delete=False)    *)
(* leaves its file on disk when the with block is left, also when it is    *)
(* left by an exception.                                                   *)
(***************************************************************************)
InitMedia ==
    /\ fn \in {"load_video", "load_audio"}
    /\ pc = "create_input"
    /\ audio = "unbound"
    /\ files = {}
    /\ created = {}
    /\ transcribeCalls = 0
    /\ wavWritten = FALSE
    /\ retval = Pending
    /\ warnings = 0

\* The outer handler: return f"Error processing <kind>: {str(e)}".
OuterExcept(msg) ==
    /\ result' = ErrorString(msg)
    /\ pc' = "done"
    /\ UNCHANGED retval

\* A return statement (or the inner handler's) inside the inner try: the
\* value waits while the finally block runs.
ReturnThroughFinally(value) ==
    /\ retval' = value
    /\ pc' = "unlink_input"
    /\ UNCHANGED result

\* The next statement.
Goto(label) ==
    /\ pc' = label
    /\ UNCHANGED <<result, retval>>

\* The finally block is left: the pending return takes place.
LeaveFinally ==
    /\ result' = retval
    /\ pc' = "done"
    /\ UNCHANGED retval

notMedia == <<fn, file_bytes, textVars, pdfVars, text>>

\* with tempfile.NamedTemporaryFile(suffix='.mp4', delete=False) as temp_video
LoadVideo_CreateTempVideo ==
    /\ fn = "load_video"
    /\ pc = "create_input"
    /\ \/ /\ files' = files \cup {"temp_video"}
          /\ created' = created \cup {"temp_video"}
          /\ Goto("write_input")
       \/ /\ OuterExcept("Error processing video: ")
          /\ UNCHANGED <<files, created>>
    /\ UNCHANGED <<notMedia, audio, transcribeCalls, wavWritten, warnings>>

\* temp_video.write(file_bytes), and the with block's close
LoadVideo_WriteVideo ==
    /\ fn = "load_video"
    /\ pc = "write_input"
    /\ \/ /\ file_bytes.type = "bytes"
          /\ Goto("create_wav")
       \/ OuterExcept("Error processing video: ")
    /\ UNCHANGED <<notMedia, audio, files, created, transcribeCalls, wavWritten,
                   warnings>>

\* with tempfile.NamedTemporaryFile(suffix='.wav', delete=False) as temp_audio
LoadVideo_CreateTempAudio ==
    /\ fn = "load_video"
    /\ pc = "create_wav"
    /\ \/ /\ files' = files \cup {"temp_audio"}
          /\ created' = created \cup {"temp_audio"}
          /\ Goto("open")
       \/ /\ OuterExcept("Error processing video: ")
          /\ UNCHANGED <<files, created>>
    /\ UNCHANGED <<notMedia, audio, transcribeCalls, wavWritten, warnings>>

\* with VideoFileClip(temp_video_path) as video
LoadVideo_OpenClip ==
    /\ fn = "load_video"
    /\ pc = "open"
    /\ \/ Goto("audio")
       \/ ReturnThroughFinally(ErrorString("Error processing video: "))
    /\ UNCHANGED <<notMedia, audio, files, created, transcribeCalls, wavWritten,
                   warnings>>

\* audio = video.audio; if audio is None: return ...
LoadVideo_AudioTrack ==
    /\ fn = "load_video"
    /\ pc = "audio"
    /\ \/ /\ audio' = "None"
          /\ ReturnThroughFinally(Sentinel("No audio track found in video"))
       \/ /\ audio' = "AudioFileClip"
          /\ Goto("write_wav")
    /\ UNCHANGED <<notMedia, files, created, transcribeCalls, wavWritten, warnings>>

\* A variant that goes on to the transcription when the WAV file could not
\* be written.
LoadVideo_WriteAudiofile_Swallows ==
    /\ fn = "load_video"
    /\ pc = "write_wav"
    /\ \/ wavWritten' = TRUE /\ Goto("duration")
       \/ UNCHANGED wavWritten /\ Goto("duration")
    /\ UNCHANGED <<notMedia, audio, files, created, transcribeCalls, warnings>>

\* audio.write_audiofile(temp_audio_path, ...)
LoadVideo_WriteAudiofile ==
    /\ fn = "load_video"
    /\ pc = "write_wav"
    /\ \/ /\ wavWritten' = TRUE
          /\ Goto("duration")
       \/ /\ ReturnThroughFinally(ErrorString("Error processing video: "))
          /\ UNCHANGED wavWritten
    /\ UNCHANGED <<notMedia, audio, files, created, transcribeCalls, warnings>>

\* duration = video.duration, its logging, and the clip's close
LoadVideo_Duration ==
    /\ fn = "load_video"
    /\ pc = "duration"
    /\ \/ Goto("transcribe")
       \/ ReturnThroughFinally(ErrorString("Error processing video: "))
    /\ UNCHANGED <<notMedia, audio, files, created, transcribeCalls, wavWritten,
                   warnings>>

\* open(temp_audio_path, "rb"), client.audio.transcriptions.create(...), and
\* the statements that build the value returned
LoadVideo_Transcribe ==
    /\ fn = "load_video"
    /\ pc = "transcribe"
    /\ \/ /\ ReturnThroughFinally(ErrorString("Error processing video: "))
          /\ UNCHANGED transcribeCalls                   \* open raises
       \/ /\ transcribeCalls' = transcribeCalls + 1
          /\ \E outcome \in {"raises", "no speech", "text"} :
               ReturnThroughFinally(
                   CASE outcome = "raises" ->
                            ErrorString("Error processing video: ")
                     [] outcome = "no speech" ->
                            Sentinel("No speech detected in video audio")
                     [] outcome = "text" ->
                            Report("--- Video Transcription ---"))
    /\ UNCHANGED <<notMedia, audio, files, created, wavWritten, warnings>>

\* finally: os.unlink(temp_video_path); a failure is logged and leaves the
\* handler's try block, so that the second unlink is not run.
LoadVideo_UnlinkVideo ==
    /\ fn = "load_video"
    /\ pc = "unlink_input"
    /\ \/ /\ files' = files \ {"temp_video"}
          /\ Goto("unlink_wav")
          /\ UNCHANGED warnings
       \/ /\ warnings' = warnings + 1
          /\ LeaveFinally
          /\ UNCHANGED files
    /\ UNCHANGED <<notMedia, audio, created, transcribeCalls, wavWritten>>

\* os.unlink(temp_audio_path)
LoadVideo_UnlinkAudio ==
    /\ fn = "load_video"
    /\ pc = "unlink_wav"
    /\ \/ /\ files' = files \ {"temp_audio"}
          /\ UNCHANGED warnings
       \/ /\ warnings' = warnings + 1
          /\ UNCHANGED files
    /\ LeaveFinally
    /\ UNCHANGED <<notMedia, audio, created, transcribeCalls, wavWritten>>

\* with tempfile.NamedTemporaryFile(suffix='.m4a', delete=False) as temp_input
LoadAudio_CreateTempInput ==
    /\ fn = "load_audio"
    /\ pc = "create_input"
    /\ \/ /\ files' = files \cup {"temp_input"}
          /\ created' = created \cup {"temp_input"}
          /\ Goto("write_input")
       \/ /\ OuterExcept("Error processing audio: ")
          /\ UNCHANGED <<files, created>>
    /\ UNCHANGED <<notMedia, audio, transcribeCalls, wavWritten, warnings>>

\* temp_input.write(file_bytes), and the with block's close
LoadAudio_WriteInput ==
    /\ fn = "load_audio"
    /\ pc = "write_input"
    /\ \/ /\ file_bytes.type = "bytes"
          /\ Goto("create_wav")
       \/ OuterExcept("Error processing audio: ")
    /\ UNCHANGED <<notMedia, audio, files, created, transcribeCalls, wavWritten,
                   warnings>>

\* with tempfile.NamedTemporaryFile(suffix='.wav', delete=False) as temp_output
LoadAudio_CreateTempOutput ==
    /\ fn = "load_audio"
    /\ pc = "create_wav"
    /\ \/ /\ files' = files \cup {"temp_output"}
          /\ created' = created \cup {"temp_output"}
          /\ Goto("open")
       \/ /\ OuterExcept("Error processing audio: ")
          /\ UNCHANGED <<files, created>>
    /\ UNCHANGED <<notMedia, audio, transcribeCalls, wavWritten, warnings>>

\* audio = AudioSegment.from_file(temp_input_path)
LoadAudio_FromFile ==
    /\ fn = "load_audio"
    /\ pc = "open"
    /\ \/ /\ audio' = "AudioSegment"
          /\ Goto("audio")
       \/ /\ ReturnThroughFinally(ErrorString("Error processing audio: "))
          /\ UNCHANGED audio
    /\ UNCHANGED <<notMedia, files, created, transcribeCalls, wavWritten, warnings>>

\* audio = audio.set_channels(1).set_frame_rate(16000)
LoadAudio_Resample ==
    /\ fn = "load_audio"
    /\ pc = "audio"
    /\ \/ Goto("write_wav")
       \/ ReturnThroughFinally(ErrorString("Error processing audio: "))
    /\ UNCHANGED <<notMedia, audio, files, created, transcribeCalls, wavWritten,
                   warnings>>

\* audio.export(temp_output_path, format="wav"), then the duration
LoadAudio_Export ==
    /\ fn = "load_audio"
    /\ pc = "write_wav"
    /\ \/ /\ wavWritten' = TRUE
          /\ Goto("transcribe")
       \/ /\ ReturnThroughFinally(ErrorString("Error processing audio: "))
          /\ UNCHANGED wavWritten
    /\ UNCHANGED <<notMedia, audio, files, created, transcribeCalls, warnings>>

\* open(temp_output_path, 'rb'), client.audio.transcriptions.create(...), and
\* the statements that build the value returned
LoadAudio_Transcribe ==
    /\ fn = "load_audio"
    /\ pc = "transcribe"
    /\ \/ /\ ReturnThroughFinally(ErrorString("Error processing audio: "))
          /\ UNCHANGED transcribeCalls                   \* open raises
       \/ /\ transcribeCalls' = transcribeCalls + 1
          /\ \E outcome \in {"raises", "no speech", "text"} :
               ReturnThroughFinally(
                   CASE outcome = "raises" ->
                            ErrorString("Error processing audio: ")
                     [] outcome = "no speech" ->
                            Sentinel("No speech detected in audio file")
                     [] outcome = "text" ->
                            Report("--- Audio Transcription ---"))
    /\ UNCHANGED <<notMedia, audio, files, created, wavWritten, warnings>>

\* finally: os.unlink(temp_input_path); a failure is logged and leaves the
\* handler's try block, so that the second unlink is not run.
LoadAudio_UnlinkInput ==
    /\ fn = "load_audio"
    /\ pc = "unlink_input"
    /\ \/ /\ files' = files \ {"temp_input"}
          /\ Goto("unlink_wav")
          /\ UNCHANGED warnings
       \/ /\ warnings' = warnings + 1
          /\ LeaveFinally
          /\ UNCHANGED files
    /\ UNCHANGED <<notMedia, audio, created, transcribeCalls, wavWritten>>

\* os.unlink(temp_output_path)
LoadAudio_UnlinkOutput ==
    /\ fn = "load_audio"
    /\ pc = "unlink_wav"
    /\ \/ /\ files' = files \ {"temp_output"}
          /\ UNCHANGED warnings
       \/ /\ warnings' = warnings + 1
          /\ UNCHANGED files
    /\ LeaveFinally
    /\ UNCHANGED <<notMedia, audio, created, transcribeCalls, wavWritten>>

(***************************************************************************)
(* The specification: one call of one function.                            *)
(***************************************************************************)
\* The variables a call does not use.
IdleText ==
    /\ byteorder = "little" /\ source_str = None
    /\ encIdx = 1 /\ decoded_with = ""
IdlePdf == pages = <<>> /\ page_num = 0 /\ text_content = <<>>
IdleNormalize == text = None
IdleMedia ==
    /\ audio = "unbound" /\ files = {} /\ created = {} /\ transcribeCalls = 0
    /\ wavWritten = FALSE /\ retval = Pending /\ warnings = 0
\* A bytes argument whose content the model does not look into.
SomeBytes == file_bytes = Bytes(<<>>)
\* The same, or an argument that is no bytes object.
AnyArgument == file_bytes \in {Bytes(<<>>), None}

Init ==
    /\ result = Pending
    /\ \/ InitText /\ IdlePdf /\ IdleNormalize /\ IdleMedia
       \/ InitNormalize /\ file_bytes = None /\ IdleText /\ IdlePdf /\ IdleMedia
       \/ InitPdf /\ SomeBytes /\ IdleText /\ IdleNormalize /\ IdleMedia
       \/ InitSimple /\ SomeBytes /\ IdleText /\ IdlePdf /\ IdleNormalize /\ IdleMedia
       \/ InitMedia /\ AnyArgument /\ IdleText /\ IdlePdf /\ IdleNormalize

Next ==
    \/ LoadText_Decode
    \/ LoadText_Except
    \/ NormalizeText_Call
    \/ LoadPdf_Open
    \/ LoadPdf_Page
    \/ LoadPdf_Return
    \/ LoadImage_Call
    \/ LoadCsv_Call
    \/ LoadExcel_Call
    \/ LoadVideo_CreateTempVideo
    \/ LoadVideo_WriteVideo
    \/ LoadVideo_CreateTempAudio
    \/ LoadVideo_OpenClip
    \/ LoadVideo_AudioTrack
    \/ LoadVideo_WriteAudiofile
    \/ LoadVideo_Duration
    \/ LoadVideo_Transcribe
    \/ LoadVideo_UnlinkVideo
    \/ LoadVideo_UnlinkAudio
    \/ LoadAudio_CreateTempInput
    \/ LoadAudio_WriteInput
    \/ LoadAudio_CreateTempOutput
    \/ LoadAudio_FromFile
    \/ LoadAudio_Resample
    \/ LoadAudio_Export
    \/ LoadAudio_Transcribe
    \/ LoadAudio_UnlinkInput
    \/ LoadAudio_UnlinkOutput

Spec == Init /\ [][Next]_vars

(***************************************************************************)
(* Properties.                                                             *)
(***************************************************************************)
Done == pc = "done"
IsMedia == fn \in {"load_video", "load_audio"}

\* The temporary files of the call: the input copy and the WAV file.
TempInput == IF fn = "load_video" THEN "temp_video" ELSE "temp_input"
TempWav == IF fn = "load_video" THEN "temp_audio" ELSE "temp_output"

\* C1: when a call of load_video or load_audio has returned, no temporary
\* file that the call created is still on disk, whatever each step did.
C1_NoTempFileAfterReturn ==
    (IsMedia /\ Done) => created \cap files = {}

\* C2: every extractor returns a str on every exit path, never None.
C2_ReturnsStr ==
    (Done /\ fn # "normalize_text") => result.type = "str"

\* C3: when the video has no audio track, load_video returns exactly
\* "No audio track found in video", issues no transcription request, and
\* leaves neither temporary file on disk.
C3_NoAudioTrack ==
    (fn = "load_video" /\ Done /\ audio = "None") =>
        /\ result = Sentinel("No audio track found in video")
        /\ transcribeCalls = 0
        /\ "temp_video" \notin files
        /\ "temp_audio" \notin files

\* The positions of out at which pat occurs.
Occurrences(out, pat) ==
    {i \in 1..(Len(out) - Len(pat) + 1) : SubSeq(out, i, i + Len(pat) - 1) = pat}

\* The positions of out at which a string "--- Page k ---" occurs, for the
\* page numbers k from 0 to one more than the PDF has pages.
MarkerPositions(out) ==
    UNION {Occurrences(out, PageMarker(k)) : k \in 0..(Len(pages) + 1)}

\* load_pdf returned, the document was opened, and each page yielded text.
PdfAllPagesYieldText ==
    /\ fn = "load_pdf" /\ Done /\ result.kind # "error"
    /\ \A i \in 1..Len(pages) : Truthy(pages[i])

\* No page's own text contains a string "--- Page k ---".
NoMarkerInPageText ==
    \A i \in 1..Len(pages) : MarkerPositions(pages[i].val) = {}

\* The output holds exactly one marker for each page 1..N, in ascending
\* order, each followed by the blank line and the page's stripped text.
ExactlyTheMarkers ==
    LET out == result.body
        N == Len(pages)
        at(k) == CHOOSE i \in Occurrences(out, PageMarker(k)) : TRUE
    IN  /\ Cardinality(MarkerPositions(out)) = N
        /\ \A k \in 1..N : Cardinality(Occurrences(out, PageMarker(k))) = 1
        /\ \A k \in 1..(N - 1) : at(k) < at(k + 1)
        /\ \A k \in 1..N :
             LET after == at(k) + Len(PageMarker(k))
                 body == <<10, 10>> \o strip(pages[k].val)
             IN  SubSeq(out, after, after + Len(body) - 1) = body

\* C4 as stated: for a PDF of N pages each of which yields non-empty text,
\* the output contains exactly N markers "--- Page k ---", one for each k
\* from 1 to N, ascending, each followed by that page's stripped text.
C4_Original == PdfAllPagesYieldText => ExactlyTheMarkers

\* C4 amended: the same, for a PDF none of whose pages' own text contains a
\* string "--- Page k ---".
C4_MarkersPerPage ==
    (PdfAllPagesYieldText /\ NoMarkerInPageText) => ExactlyTheMarkers

\* A PDF of MaxPages pages that each yield text, one of them only
\* whitespace, has been turned into its output.
C4_Witness ==
    /\ PdfAllPagesYieldText /\ NoMarkerInPageText
    /\ Len(pages) = MaxPages
    /\ \E i \in 1..Len(pages) : pages[i].val = <<32>>
    /\ \E i \in 1..Len(pages) : pages[i].val = <<32, 97, 10>>
    /\ result.kind = "content"

\* C5: a page whose extraction fails is skipped alone: every page that
\* yields text is in the output under its own 1-indexed number, and the
\* call returns "No text content found in PDF" exactly when no page yields
\* text.
C5_PageFailureSkipsOnlyThatPage ==
    (fn = "load_pdf" /\ Done /\ result.kind # "error") =>
        /\ (result = Sentinel("No text content found in PDF"))
               <=> (\A i \in 1..Len(pages) : ~Truthy(pages[i]))
        /\ \A i \in 1..Len(pages) :
             Truthy(pages[i]) =>
                 /\ result.kind = "content"
                 /\ Occurrences(result.body,
                                PageMarker(i) \o <<10, 10>> \o strip(pages[i].val))
                        # {}

\* The first page's extraction raised, a later page yielded text, and the
\* call returned that page's text.
C5_Witness ==
    /\ fn = "load_pdf" /\ Done
    /\ Len(pages) >= 2
    /\ pages[1] = PageRaises
    /\ Truthy(pages[2])
    /\ result.kind = "content"

\* load_text returned for a bytes argument.
TextDone == fn = "load_text" /\ Done /\ file_bytes.type = "bytes"

\* C6: load_text tries UTF-8, UTF-16, Latin-1, ASCII in this order and
\* returns the stripped decoding of the first that succeeds; only if all
\* four fail does it return the UTF-8 decoding with replacement characters.
C6_FirstSuccessfulEncoding ==
    TextDone =>
        LET order == <<"utf-8", "utf-16", "latin-1", "ascii">>
            dec(i) == decode(file_bytes.val, order[i], byteorder)
            good == {i \in 1..4 : dec(i).ok}
        IN  IF good # {}
            THEN LET first == CHOOSE i \in good : \A j \in good : i <= j
                 IN  /\ result = Content(strip(dec(first).text))
                     /\ decoded_with = order[first]
            ELSE /\ result =
                        Content(strip(utf8_decode(file_bytes.val, 1, "replace").text))
                 /\ decoded_with = "utf-8/replace"

\* Bytes that are not UTF-8 were decoded as UTF-16, the second encoding,
\* and not as Latin-1, which accepts them too.
C6_Witness ==
    /\ TextDone
    /\ ~decode(file_bytes.val, "utf-8", byteorder).ok
    /\ decoded_with = "utf-16"
    /\ result.body # <<>>

\* C7: for every str s, load_text of the UTF-8 encoding of s returns s with
\* its leading and trailing whitespace removed.
C7_Utf8RoundTrip ==
    (TextDone /\ source_str.type = "str") =>
        result = Content(strip(source_str.val))

\* A str with whitespace at an end and a character outside ASCII made the
\* round trip.
C7_Witness ==
    /\ TextDone
    /\ source_str.type = "str"
    /\ Len(source_str.val) = 2
    /\ IsSpace(source_str.val[1])
    /\ source_str.val[2] > 127
    /\ Len(result.body) = 1

\* C10: for a bytes argument load_text returns at the latest on the third
\* encoding, Latin-1: the ASCII attempt, the lossy fallback and the error
\* string are never reached.
C10_ReturnsByLatin1 ==
    (fn = "load_text" /\ file_bytes.type = "bytes") =>
        /\ encIdx <= 3
        /\ Done => /\ decoded_with \in {"utf-8", "utf-16", "latin-1"}
                   /\ result.kind = "content"

\* Bytes that neither UTF-8 nor UTF-16 accepts were decoded as Latin-1.
C10_Witness ==
    /\ TextDone
    /\ encIdx = 3
    /\ decoded_with = "latin-1"
    /\ ~decode(file_bytes.val, "utf-16", byteorder).ok

\* The lines of normalize_text's argument, and those that strip to
\* something.
ArgLines == IF text.type = "NoneType" THEN <<>> ELSE split(text.val, 10)
KeptIndex == {i \in 1..Len(ArgLines) : strip(ArgLines[i]) # <<>>}
\* The lines of the output ("" has none).
OutLines == IF result.body = <<>> THEN <<>> ELSE split(result.body, 10)

\* C8: normalize_text is idempotent, and its output is the argument's
\* lines, each stripped, without those that become empty, in their order,
\* joined by single newlines; "  a  \n\n b \n" gives "a\nb".
C8_NormalizeIdempotent ==
    (fn = "normalize_text" /\ Done) =>
        /\ normalize_text(Str(result.body)) = result.body
        /\ Len(OutLines) = Cardinality(KeptIndex)
        /\ \A j \in 1..Len(OutLines) :
             LET i == CHOOSE n \in KeptIndex :
                          Cardinality({m \in KeptIndex : m <= n}) = j
             IN  OutLines[j] = strip(ArgLines[i])
        /\ text = Str(ExampleText) => result.body = <<97, 10, 98>>

\* "  a  \n\n b \n" was normalized to "a\nb".
C8_Witness ==
    /\ fn = "normalize_text" /\ Done
    /\ text = Str(ExampleText)
    /\ result = Content(<<97, 10, 98>>)

\* The statements that read or write each temporary file.
UsesInput ==
    IF fn = "load_video"
    THEN {"write_input", "open", "audio", "write_wav", "duration"}
    ELSE {"write_input", "open"}
UsesWav == {"write_wav", "transcribe"}

C9_Order ==
    IsMedia =>
        /\ transcribeCalls <= 1
        /\ transcribeCalls = 1 => wavWritten
        /\ pc \in UsesInput => TempInput \in files
        /\ pc \in UsesWav => TempWav \in files
        /\ (Done /\ retval # Pending) => result = retval

C9_CleanupKeepsValue ==
    (IsMedia /\ pc \in {"unlink_input", "unlink_wav"}) =>
        /\ retval' = retval
        /\ result' \in {Pending, retval}

\* C9: within one call of load_video or load_audio the transcription
\* request is issued at most once and only after the WAV file was written;
\* no temporary file is deleted before the last statement that uses it; and
\* the value returned is the one decided before the cleanup, whether the
\* deletions succeed or fail.
C9_StepsOrdered == []C9_Order /\ [][C9_CleanupKeepsValue]_vars

\* A call transcribed its WAV file, a deletion then failed, and the call
\* returned the transcription.
C9_Witness ==
    /\ IsMedia /\ Done
    /\ transcribeCalls = 1
    /\ warnings = 1
    /\ result.kind = "content"

====
